---- MODULE Spec2Model ----
(***************************************************************************)
(* Retrieval-augmented-answer pipeline of chatbot-agil:                    *)
(*   VectorStore      (src/src/rag/vector_store.py)                        *)
(*   RAGRetriever     (src/src/rag/retriever.py)                           *)
(*   TextChunker      (src/src/data_processing/text_chunker.py)            *)
(*   DocumentLoader   (src/src/data_processing/document_loader.py)         *)
(*   DocumentProcessor(src/src/rag/document_processor.py)                  *)
(*   MetadataHandler  (src/src/data_processing/metadata_handler.py)        *)
(* Each component has its own specification over the shared variables:     *)
(*   SpecStore  sequential VectorStore calls, with store failures          *)
(*   SpecRace   clear_collection racing with similarity_search             *)
(*   SpecQuery  one RAGRetriever.query, stage by stage                     *)
(*   SpecChunk  TextChunker construction and chunk_text                    *)
(*   SpecLoad   one single-file or directory load                          *)
(*   SpecEnrich repeated enrich_metadata of one document                   *)
(*   SpecCite   one aggregate_sources call                                 *)
(*   SpecContext one query over chunks of the default size                 *)
(*   SpecWriters add_documents racing with clear_collection                *)
(*   SpecDeps   threads calling get_vector_store                           *)
(*   SpecEmbed  handles opened with any embedding model on one collection  *)
(*   SpecFilter one filter_by_metadata call                                *)
(*   SpecOptimize chunk_text followed by optimize_chunks_for_context       *)
(*   SpecPipeline the chunking step of either ingestion pipeline           *)
(*   SpecChat   a sequence of ChatbotAgent.chat and clear_memory calls     *)
(***************************************************************************)
EXTENDS Integers, Sequences, FiniteSets, TLC

(***************************************************************************)
(* Bounds of the model.                                                    *)
(***************************************************************************)
MaxDocs == 2        \* document ids ever handed out / stored
MaxClears == 1      \* collections ever created after the first one
MaxK == 2           \* largest k passed to a search
MaxBatch == 2       \* largest batch passed to add_documents
MaxThreads == 3     \* threads calling get_vector_store

(***************************************************************************)
(* Documents (langchain Document): page_content and the metadata keys.     *)
(* Contents and queries are small integers; the embedding distance between *)
(* a query and a content is their absolute difference.                     *)
(***************************************************************************)
Queries == 1..2
REQUIRED_FIELDS == {"source_file", "category"}
\* metadata keys stamped by DocumentLoader.load_single_document
LoaderKeys == {"source_file", "source_path", "category", "file_type"}
\* ... and after TextChunker.chunk_documents
LoaderChunkKeys == LoaderKeys \cup {"chunk_id", "chunk_size"}
\* metadata keys stamped by DocumentProcessor.load_document
ProcessorKeys == {"source", "filename", "file_type", "file_hash"}
\* ... and after DocumentProcessor.chunk_documents (process_file)
ProcessFileKeys == ProcessorKeys \cup {"chunk_id"}
\* one unit per ingestion path: DocumentLoader + TextChunker, and DocumentProcessor.process_file
Documents == {[page_content |-> 1, keys |-> LoaderChunkKeys],
              [page_content |-> 2, keys |-> ProcessFileKeys]}
Ids == 1..MaxDocs

VARIABLES
    collection,   \* the persisted Chroma collection: [exists, uid, docs], docs : id -> Document
    vectorstore,  \* self.vectorstore: uid of the collection the Chroma wrapper is bound to
    nextUid,      \* uuid source for collections
    nextId,       \* uuid source for auto-generated document ids
    ret,          \* the last VectorStore call: [op, outcome, value, fault, hits]
                  \*   (fault: the store failed during it; hits: stored ids a delete named)
    before,       \* history: the number of units stored when the last call began
    cpc, spc,     \* SpecRace: position of the clear thread and of the search thread
    shandle,      \* SpecRace: the Chroma wrapper the search thread read from self.vectorstore
    qpc,          \* SpecQuery: stage of RAGRetriever.query
    qargs,        \* SpecQuery: [question, k, return_sources]
    documents,    \* SpecQuery: the list retrieve_documents returned
    context,      \* SpecQuery: the context assembled from it
    qlog,         \* SpecQuery: history of the collaborator calls of this query, in order
    qresult,      \* SpecQuery: what query returned or raised
    text,         \* SpecChunk: the text handed to the chunker
    ctor,         \* SpecChunk: the arguments of TextChunker(...): [chunk_size, chunk_overlap,
                  \*   overlap_given]; an argument not passed (None) is held as 0
    chunker,      \* SpecChunk: the constructed TextChunker, or the constructor's failure
    chunks,       \* SpecChunk: the list chunk_text returned
    lret,         \* SpecLoad: the last load call: its arguments and what it returned or raised
    document,     \* SpecEnrich: the Document handed to enrich_metadata (mutated in place)
    additional_metadata, \* SpecEnrich: the extra mapping of the calls
    now,          \* SpecEnrich: the clock read by datetime.now()
    enriched,     \* SpecEnrich: history, the metadata after each application
    cited,        \* SpecCite: the list handed to aggregate_sources
    unique_citations, \* SpecCite: [called, value]: what aggregate_sources returned
    wpc,          \* SpecWriters: position of the add_documents thread
    whandle,      \* SpecWriters: the Chroma wrapper the add thread read from self.vectorstore
    wret,         \* SpecWriters: what the add_documents call returned or raised
    _vector_store, \* SpecDeps: the module global of dependencies.py (0 is None)
    tpc,          \* SpecDeps: position of each thread inside get_vector_store
    tlocal,       \* SpecDeps: the VectorStore each thread constructed / returned
    constructed,  \* SpecDeps: VectorStore instances constructed so far
    embeddings,   \* SpecEmbed: self.embeddings of the handle in use (an embedding model)
    embedded,     \* SpecEmbed: for each stored id, the model that embedded the unit
    filter_args,  \* SpecFilter: [documents, filters] handed to filter_by_metadata
    filtered_docs, \* SpecFilter: [called, value]: what filter_by_metadata returned
    optimized,    \* SpecOptimize: the optimize_chunks_for_context call and its outcome
    pipeline,     \* SpecPipeline: which chunking step produced `chunks`
    agent,        \* SpecChat: the ChatbotAgent: which collaborators it was built with
    memory,       \* SpecChat: memory.chat_memory.messages
    chat_ret,     \* SpecChat: what the last chat call returned or raised
    chat_log      \* SpecChat: history, the chat calls since the last clear_memory

storeVars == <<collection, vectorstore, nextUid, nextId, ret, before>>
raceVars == <<cpc, spc, shandle>>
queryVars == <<qpc, qargs, documents, context, qlog, qresult>>
chunkVars == <<text, ctor, chunker, chunks>>
loadVars == <<lret>>
ingestVars == <<chunkVars, loadVars>>
enrichVars == <<document, additional_metadata, now, enriched>>
citeVars == <<cited, unique_citations>>
writeVars == <<wpc, whandle, wret>>
depVars == <<_vector_store, tpc, tlocal, constructed>>
embedVars == <<embeddings, embedded>>
filterVars == <<filter_args, filtered_docs>>
chatVars == <<agent, memory, chat_ret, chat_log>>
lateVars == <<embedVars, filterVars, optimized, pipeline, chatVars>>
auxVars == <<enrichVars, citeVars, writeVars, depVars, lateVars>>
vars == <<storeVars, raceVars, queryVars, ingestVars, auxVars>>

NoRet == [op |-> "none", outcome |-> "none", value |-> <<>>, fault |-> FALSE, hits |-> 0]

(***************************************************************************)
(* Helpers on sequences and finite maps.                                   *)
(***************************************************************************)
Range(s) == {s[i] : i \in DOMAIN s}

NoDup(s) == \A i, j \in DOMAIN s : i /= j => s[i] /= s[j]

Abs(x) == IF x < 0 THEN -x ELSE x

Min(a, b) == IF a <= b THEN a ELSE b

\* the first n elements of s (Python s[:n] for n >= 0)
Take(s, n) == SubSeq(s, 1, Min(n, Len(s)))

\* sequences over S of length lo..hi
SeqsOf(S, lo, hi) == UNION {[1..n -> S] : n \in lo..hi}

(***************************************************************************)
(* Chroma: distance of a stored document to the query, and the ranked      *)
(* result list (nearest first; ties by insertion id).                      *)
(***************************************************************************)
Distance(q, doc) == Abs(q - doc.page_content)

Nearer(q, docs, i, j) ==
    \/ Distance(q, docs[i]) < Distance(q, docs[j])
    \/ Distance(q, docs[i]) = Distance(q, docs[j]) /\ i < j

RECURSIVE Ranked(_, _, _)
Ranked(q, docs, ids) ==
    IF ids = {} THEN <<>>
    ELSE LET best == CHOOSE i \in ids : \A j \in ids \ {i} : Nearer(q, docs, i, j)
         IN <<[id |-> best, doc |-> docs[best]]>> \o Ranked(q, docs, ids \ {best})

\* a query that ignores n_results
ChromaQueryAll(docs, q, k) == Ranked(q, docs, DOMAIN docs)

\* collection.query(n_results=k): the k nearest of what is stored
ChromaQuery(docs, q, k) == Take(Ranked(q, docs, DOMAIN docs), k)

\* is the Chroma wrapper `handle` bound to a collection that still exists
Bound(coll, handle) == coll.exists /\ coll.uid = handle

EmptyDocs == [i \in {} |-> [page_content |-> 1, keys |-> LoaderKeys]]

(***************************************************************************)
(* VectorStore (src/src/rag/vector_store.py).  `fault` is the store being  *)
(* unavailable or its persistence corrupted during the call: the Chroma    *)
(* call of the operation raises.                                           *)
(***************************************************************************)
StoreInit ==
    /\ collection = [exists |-> TRUE, uid |-> 1, docs |-> EmptyDocs]
    /\ vectorstore = 1
    /\ nextUid = 2
    /\ nextId = 1
    /\ ret = NoRet
    /\ before = 0

\* Chroma.add_documents: upsert of the batch under the given ids
Upsert(docs, batch, ids) ==
    [i \in DOMAIN docs \cup Range(ids) |->
        IF i \in Range(ids)
        THEN batch[CHOOSE n \in DOMAIN ids : ids[n] = i]
        ELSE docs[i]]

\* the ids add_documents stores the batch under: the caller's, or fresh uuids
\* when `ids` is empty (None and [] are both falsy)
DocumentIds(batch, ids) ==
    IF ids /= <<>> THEN ids ELSE [n \in DOMAIN batch |-> nextId + n - 1]

AddDocuments(batch, ids, fault) ==
    /\ before' = Cardinality(DOMAIN collection.docs)
    /\ LET document_ids == DocumentIds(batch, ids)
           raises == \/ fault
                     \/ ~Bound(collection, vectorstore)
                     \/ Len(document_ids) /= Len(batch)
                     \/ ~NoDup(document_ids)
       IN IF raises
          THEN /\ ret' = [op |-> "add", outcome |-> "raised", value |-> <<>>, fault |-> fault, hits |-> 0]
               /\ UNCHANGED <<collection, nextId>>
          ELSE /\ collection' = [collection EXCEPT !.docs = Upsert(@, batch, document_ids)]
               /\ nextId' = IF ids /= <<>> THEN nextId ELSE nextId + Len(batch)
               /\ ret' = [op |-> "add", outcome |-> "ok", value |-> document_ids, fault |-> fault, hits |-> 0]
    /\ UNCHANGED <<vectorstore, nextUid>>

SimilaritySearch(q, k, fault) ==
    /\ before' = Cardinality(DOMAIN collection.docs)
    /\ IF fault \/ ~Bound(collection, vectorstore) \/ k <= 0
       THEN ret' = [op |-> "search", outcome |-> "raised", value |-> <<>>, fault |-> fault, hits |-> 0,
                    q |-> q, k |-> k]
       ELSE ret' = [op |-> "search", outcome |-> "ok",
                    value |-> ChromaQuery(collection.docs, q, k), fault |-> fault, hits |-> 0,
                    q |-> q, k |-> k]
    /\ UNCHANGED <<collection, vectorstore, nextUid, nextId>>

DeleteDocuments(ids, fault) ==
    /\ before' = Cardinality(DOMAIN collection.docs)
    /\ IF fault \/ ~Bound(collection, vectorstore)
       THEN \* except Exception: logged, return False
            /\ ret' = [op |-> "delete", outcome |-> "ok", value |-> FALSE, fault |-> fault, hits |-> 0]
            /\ UNCHANGED collection
       ELSE /\ collection' = [collection EXCEPT
                   !.docs = [i \in DOMAIN @ \ Range(ids) |-> @[i]]]
            /\ ret' = [op |-> "delete", outcome |-> "ok", value |-> TRUE, fault |-> fault,
                       hits |-> Cardinality(Range(ids) \cap DOMAIN collection.docs)]
    /\ UNCHANGED <<vectorstore, nextUid, nextId>>

GetCollectionCount(fault) ==
    /\ before' = Cardinality(DOMAIN collection.docs)
    /\ IF fault \/ ~collection.exists
       THEN \* except Exception: logged, return 0
            ret' = [op |-> "count", outcome |-> "ok", value |-> 0, fault |-> fault, hits |-> 0]
       ELSE ret' = [op |-> "count", outcome |-> "ok",
                    value |-> Cardinality(DOMAIN collection.docs), fault |-> fault, hits |-> 0]
    /\ UNCHANGED <<collection, vectorstore, nextUid, nextId>>

\* client.delete_collection(name), the first half of clear_collection
DeleteCollection(coll) == [coll EXCEPT !.exists = FALSE, !.docs = EmptyDocs]

\* a wrapper that always starts a new, empty collection
CreateCollectionAnew(coll, uid) == [exists |-> TRUE, uid |-> uid, docs |-> EmptyDocs]

\* Chroma(client, collection_name, embedding_function): get_or_create_collection
CreateCollection(coll, uid) ==
    IF coll.exists THEN coll ELSE [exists |-> TRUE, uid |-> uid, docs |-> EmptyDocs]

\* faultAt: "none", or the Chroma call that raises: "delete" or "create"
ClearCollection(faultAt) ==
    /\ nextUid <= MaxClears + 1
    /\ before' = Cardinality(DOMAIN collection.docs)
    /\ IF faultAt = "delete" \/ ~collection.exists
       THEN /\ ret' = [op |-> "clear", outcome |-> "ok", value |-> FALSE,
                       fault |-> faultAt /= "none", hits |-> 0]
            /\ UNCHANGED <<collection, vectorstore, nextUid>>
       ELSE IF faultAt = "create"
       THEN /\ collection' = DeleteCollection(collection)
            /\ ret' = [op |-> "clear", outcome |-> "ok", value |-> FALSE, fault |-> TRUE, hits |-> 0]
            /\ UNCHANGED <<vectorstore, nextUid>>
       ELSE /\ collection' = CreateCollection(DeleteCollection(collection), nextUid)
            /\ vectorstore' = nextUid
            /\ nextUid' = nextUid + 1
            /\ ret' = [op |-> "clear", outcome |-> "ok", value |-> TRUE, fault |-> FALSE, hits |-> 0]
    /\ UNCHANGED nextId

\* VectorStore(collection_name, persist_directory) again, on the same name and
\* directory as the handle in use (a restart): PersistentClient, then Chroma(...)
OpenStore(fault) ==
    /\ collection.exists \/ nextUid <= MaxClears + 1
    /\ before' = Cardinality(DOMAIN collection.docs)
    /\ IF fault
       THEN /\ ret' = [op |-> "open", outcome |-> "raised", value |-> <<>>, fault |-> TRUE, hits |-> 0]
            /\ UNCHANGED <<collection, vectorstore, nextUid>>
       ELSE /\ collection' = CreateCollection(collection, nextUid)
            /\ vectorstore' = collection'.uid
            /\ nextUid' = IF collection.exists THEN nextUid ELSE nextUid + 1
            /\ ret' = [op |-> "open", outcome |-> "ok", value |-> <<>>, fault |-> FALSE, hits |-> 0]
    /\ UNCHANGED nextId

(***************************************************************************)
(* The other components at rest.                                           *)
(***************************************************************************)
RaceIdle ==
    /\ cpc = "idle"
    /\ spc = "idle"
    /\ shandle = [uid |-> 0, q |-> 1, k |-> 1]

QueryIdle ==
    /\ qpc = "idle"
    /\ qargs = [question |-> 1, k |-> 0, k_given |-> FALSE, return_sources |-> FALSE]
    /\ documents = <<>>
    /\ context = <<>>
    /\ qlog = <<>>
    /\ qresult = [outcome |-> "none"]

ChunkIdle ==
    /\ text = <<>>
    /\ ctor = [chunk_size |-> 0, chunk_overlap |-> 0, overlap_given |-> FALSE]
    /\ chunker = [state |-> "none"]
    /\ chunks = <<>>

LoadIdle == lret = [op |-> "none"]

IngestIdle == ChunkIdle /\ LoadIdle

Threads == 1..MaxThreads

EnrichIdle ==
    /\ document = [page_content |-> 1, metadata |-> <<>>]
    /\ additional_metadata = <<>>
    /\ now = 1
    /\ enriched = <<>>

CiteIdle ==
    /\ cited = <<>>
    /\ unique_citations = [called |-> FALSE, value |-> <<>>]

WriteIdle ==
    /\ wpc = "idle"
    /\ whandle = [uid |-> 0, batch |-> <<>>]
    /\ wret = [outcome |-> "none"]

DepsIdle ==
    /\ _vector_store = 0
    /\ tpc = [t \in Threads |-> "idle"]
    /\ tlocal = [t \in Threads |-> 0]
    /\ constructed = 0

EmbedIdle ==
    /\ embeddings = [name |-> 1, dim |-> 1]
    /\ embedded = <<>>

FilterIdle ==
    /\ filter_args = [documents |-> <<>>, filters |-> <<>>]
    /\ filtered_docs = [called |-> FALSE, value |-> <<>>]

OptimizeIdle == optimized = [state |-> "none"]

PipelineIdle == pipeline = "none"

ChatIdle ==
    /\ agent = [rag_retriever |-> FALSE, search_tool |-> FALSE, enable_memory |-> FALSE]
    /\ memory = <<>>
    /\ chat_ret = [outcome |-> "none"]
    /\ chat_log = <<>>

LateIdle == EmbedIdle /\ FilterIdle /\ OptimizeIdle /\ PipelineIdle /\ ChatIdle

AuxIdle == EnrichIdle /\ CiteIdle /\ WriteIdle /\ DepsIdle /\ LateIdle

(***************************************************************************)
(* SpecStore: any sequence of VectorStore calls on one handle.  Explicit   *)
(* ids are ids an earlier add returned (the "stable identifiers usable for *)
(* later deletion"); k ranges over negative, zero and positive values.     *)
(***************************************************************************)
KnownIds == 1..(nextId - 1)

StoreAdd ==
    /\ \E batch \in SeqsOf(Documents, 1, MaxBatch), fault \in BOOLEAN :
        \E ids \in {<<>>} \cup [DOMAIN batch -> KnownIds] :
            /\ ids = <<>> => nextId + Len(batch) - 1 <= MaxDocs
            /\ AddDocuments(batch, ids, fault)
    /\ UNCHANGED <<raceVars, auxVars, queryVars, ingestVars>>

StoreSearch ==
    /\ \E q \in Queries, k \in -1..MaxK, fault \in BOOLEAN : SimilaritySearch(q, k, fault)
    /\ UNCHANGED <<raceVars, auxVars, queryVars, ingestVars>>

StoreDelete ==
    /\ \E ids \in SeqsOf(Ids, 1, 1), fault \in BOOLEAN : DeleteDocuments(ids, fault)
    /\ UNCHANGED <<raceVars, auxVars, queryVars, ingestVars>>

StoreCount ==
    /\ \E fault \in BOOLEAN : GetCollectionCount(fault)
    /\ UNCHANGED <<raceVars, auxVars, queryVars, ingestVars>>

StoreClear ==
    /\ \E faultAt \in {"none", "delete", "create"} : ClearCollection(faultAt)
    /\ UNCHANGED <<raceVars, auxVars, queryVars, ingestVars>>

StoreOpen ==
    /\ \E fault \in BOOLEAN : OpenStore(fault)
    /\ UNCHANGED <<raceVars, auxVars, queryVars, ingestVars>>

InitStore == StoreInit /\ RaceIdle /\ QueryIdle /\ IngestIdle /\ AuxIdle

NextStore ==
    \/ StoreAdd
    \/ StoreSearch
    \/ StoreDelete
    \/ StoreCount
    \/ StoreClear
    \/ StoreOpen

SpecStore == InitStore /\ [][NextStore]_vars

\* MetadataHandler.validate_metadata: no required field is missing
ValidateMetadata(doc) == {f \in REQUIRED_FIELDS : f \notin doc.keys} = {}

Stored == Cardinality(DOMAIN collection.docs)

\* C4: get_collection_count returns the number of units added and not since
\* deleted or cleared: an add of n units raises the stored number by exactly n,
\* a delete of one stored id lowers it by exactly 1, a successful clear makes
\* it 0, and the count reports that number.
C4_CountTracksUnits ==
    /\ (ret.op = "count" /\ ret.outcome = "ok") => ret.value = Stored
    /\ (ret.op = "add" /\ ret.outcome = "ok") => Stored = before + Len(ret.value)
    /\ (ret.op = "delete" /\ ret.value = TRUE) => Stored = before - ret.hits
    /\ (ret.op = "clear" /\ ret.value = TRUE) => Stored = 0

\* C5: a store failure inside a VectorStore call is fatal to the call: the
\* call raises, it does not return an empty result, a count or a flag.
C5_StoreFailureRaises ==
    ret.fault => ret.outcome = "raised"

\* C7: every unit stored in the index carries source_file and category.
C7_StoredUnitsValid ==
    \A i \in DOMAIN collection.docs : ValidateMetadata(collection.docs[i])

\* C15: a search with k > 0 on an existing collection, the store being
\* available, returns at most k units, nearest first, each of them stored in
\* the collection; on an empty collection it returns the empty list, no error.
C15_SearchTopKStored ==
    (ret.op = "search" /\ ret.k > 0 /\ ~ret.fault /\ Bound(collection, vectorstore)) =>
        /\ ret.outcome = "ok"
        /\ Len(ret.value) <= ret.k
        /\ \A i \in DOMAIN ret.value :
              /\ ret.value[i].id \in DOMAIN collection.docs
              /\ collection.docs[ret.value[i].id] = ret.value[i].doc
        /\ \A i, j \in DOMAIN ret.value :
              i < j => Distance(ret.q, ret.value[i].doc) <= Distance(ret.q, ret.value[j].doc)
        /\ NoDup([i \in DOMAIN ret.value |-> ret.value[i].id])
        /\ Stored = 0 => ret.value = <<>>

\* a search for one unit on a collection of two, the farther one added first
C15_Witness ==
    /\ ret.op = "search"
    /\ ret.outcome = "ok"
    /\ ret.k = 1
    /\ Stored = 2
    /\ Len(ret.value) = 1
    /\ ret.value[1].id = 2

\* C20: opening a VectorStore on the same collection name and directory never
\* changes the stored units, and the new handle is bound to the collection
\* that holds them: what was added and not deleted is counted and searched
\* through it.
C20_ReopenKeepsUnits ==
    [][(ret'.op = "open" /\ ret'.outcome = "ok") =>
          /\ collection'.docs = collection.docs
          /\ Bound(collection', vectorstore')]_vars

\* a handle opened over a collection that holds units
C20_Witness ==
    /\ ret.op = "open"
    /\ ret.outcome = "ok"
    /\ Stored > 0
    /\ Bound(collection, vectorstore)

\* C26: whenever clear_collection returns False the store is as it was before
\* the call: the collection exists, holds as many units as before, and the
\* handle is bound to it.
C26_FailedClearChangesNothing ==
    (ret.op = "clear" /\ ret.value = FALSE) =>
        /\ collection.exists
        /\ Stored = before
        /\ Bound(collection, vectorstore)

(***************************************************************************)
(* SpecRace: one thread runs clear_collection while another runs           *)
(* similarity_search on the same VectorStore; no store failures.  The      *)
(* steps are the Chroma calls and the reads and writes of self.vectorstore *)
(* between which Python may switch threads.  `before` holds the documents  *)
(* of the collection as it was before the clear.                           *)
(***************************************************************************)
DocMaps == UNION {[S -> Documents] : S \in SUBSET Ids}

InitRace ==
    /\ \E docs \in DocMaps :
        /\ collection = [exists |-> TRUE, uid |-> 1, docs |-> docs]
        /\ before = docs
    /\ vectorstore = 1
    /\ nextUid = 2
    /\ nextId = MaxDocs + 1
    /\ ret = NoRet
    /\ RaceIdle
    /\ QueryIdle
    /\ IngestIdle
    /\ AuxIdle

\* clear_collection, line 184: self.client.delete_collection(...)
ClearDelete ==
    /\ cpc = "idle"
    /\ collection' = DeleteCollection(collection)
    /\ cpc' = "deleted"
    /\ UNCHANGED <<vectorstore, nextUid, nextId, ret, before, spc, shandle, queryVars, ingestVars, auxVars>>

\* clear_collection, lines 186-190: self.vectorstore = Chroma(...)
ClearRecreate ==
    /\ cpc = "deleted"
    /\ collection' = CreateCollection(collection, nextUid)
    /\ vectorstore' = nextUid
    /\ nextUid' = nextUid + 1
    /\ cpc' = "done"
    /\ UNCHANGED <<nextId, ret, before, spc, shandle, queryVars, ingestVars, auxVars>>

\* similarity_search, line 105: the read of self.vectorstore
SearchRead ==
    /\ spc = "idle"
    /\ \E q \in Queries, k \in 1..MaxK : shandle' = [uid |-> vectorstore, q |-> q, k |-> k]
    /\ spc' = "read"
    /\ UNCHANGED <<storeVars, cpc, queryVars, ingestVars, auxVars>>

\* similarity_search, lines 105-112: the Chroma query through the wrapper read
SearchExec ==
    /\ spc = "read"
    /\ IF ~Bound(collection, shandle.uid)
       THEN ret' = [op |-> "search", outcome |-> "raised", value |-> <<>>,
                    fault |-> FALSE, hits |-> 0]
       ELSE ret' = [op |-> "search", outcome |-> "ok",
                    value |-> ChromaQuery(collection.docs, shandle.q, shandle.k),
                    fault |-> FALSE, hits |-> 0]
    /\ spc' = "done"
    /\ UNCHANGED <<collection, vectorstore, nextUid, nextId, before, cpc, shandle, queryVars, ingestVars, auxVars>>

NextRace ==
    \/ ClearDelete
    \/ ClearRecreate
    \/ SearchRead
    \/ SearchExec

SpecRace == InitRace /\ [][NextRace]_vars

\* C6: a search racing with a clear never fails: it returns the results of the
\* collection as it was before the clear, or the empty results after it.
C6_SearchSeesBeforeOrAfter ==
    spc = "done" =>
        /\ ret.outcome = "ok"
        /\ ret.value \in {ChromaQuery(before, shandle.q, shandle.k), <<>>}

(***************************************************************************)
(* RAGRetriever (src/src/rag/retriever.py).  SpecQuery runs one query      *)
(* against a collection holding any documents, stage by stage; the store   *)
(* may fail during the search and the generation backend during predict.   *)
(***************************************************************************)
top_k_results == 5

\* the fixed answer of the branch `if not documents`
NoContextAnswer == "I couldn't find any relevant information to answer your question."

\* completions of the generation backend, already stripped
Responses == {"completion", ""}

\* `k or self.top_k`: None and 0 both select the retriever's default
EffectiveK(k) == IF k = 0 THEN top_k_results ELSE k

\* the k argument of a call: omitted (None, held as 0), or an integer
KArguments == {[given |-> FALSE, k |-> 0]} \cup {[given |-> TRUE, k |-> k] : k \in -1..MaxK}

\* a retriever that lost the empty-retrieval branch
NoDocumentsNever(docs) == FALSE

\* `if not documents`
NoDocuments(docs) == Len(docs) = 0

\* "\n\n".join([doc.page_content for doc in documents])
JoinContext(docs) == [i \in DOMAIN docs |-> docs[i].page_content]

InitQuery ==
    /\ \E docs \in DocMaps :
        /\ collection = [exists |-> TRUE, uid |-> 1, docs |-> docs]
        /\ before = Cardinality(DOMAIN docs)
    /\ vectorstore = 1
    /\ nextUid = 2
    /\ nextId = MaxDocs + 1
    /\ ret = NoRet
    /\ RaceIdle
    /\ QueryIdle
    /\ IngestIdle
    /\ AuxIdle

\* query, lines 131-132: retrieve_documents -> VectorStore.similarity_search
QueryRetrieve ==
    /\ qpc = "idle"
    /\ \E question \in Queries, karg \in KArguments, rs \in BOOLEAN, fault \in BOOLEAN :
        /\ qargs' = [question |-> question, k |-> karg.k, k_given |-> karg.given,
                     return_sources |-> rs]
        /\ SimilaritySearch(question, EffectiveK(karg.k), fault)
    /\ IF ret'.outcome = "raised"
       THEN /\ qlog' = Append(qlog, "search_raised")
            /\ qresult' = [outcome |-> "raised", error |-> "store"]
            /\ qpc' = "done"
            /\ UNCHANGED documents
       ELSE /\ qlog' = Append(qlog, "search")
            /\ documents' = [i \in DOMAIN ret'.value |-> ret'.value[i].doc]
            /\ qpc' = "retrieved"
            /\ UNCHANGED qresult
    /\ UNCHANGED <<context, raceVars, auxVars, ingestVars>>

\* query, lines 134-139: nothing retrieved, the fixed answer
QueryNoContext ==
    /\ qpc = "retrieved"
    /\ NoDocuments(documents)
    /\ qresult' = [outcome |-> "returned",
                   result |-> [answer |-> NoContextAnswer,
                               sources |-> IF qargs.return_sources THEN <<>> ELSE <<"None">>]]
    /\ qpc' = "done"
    /\ UNCHANGED <<storeVars, raceVars, auxVars, ingestVars, qargs, documents, context, qlog>>

\* query, lines 141-142: the context
QueryAssemble ==
    /\ qpc = "retrieved"
    /\ ~NoDocuments(documents)
    /\ context' = JoinContext(documents)
    /\ qpc' = "assembled"
    /\ UNCHANGED <<storeVars, raceVars, auxVars, ingestVars, qargs, documents, qlog, qresult>>

\* the dictionary query returns after a completion, lines 151-166
QueryResult(docs, response, return_sources) ==
    IF return_sources
    THEN [answer |-> response, num_sources |-> Len(docs),
          sources |-> [i \in DOMAIN docs |->
                          [content |-> docs[i].page_content, metadata |-> docs[i].keys]]]
    ELSE [answer |-> response, num_sources |-> Len(docs)]

\* a query that goes back to generation after the backend has answered
RetryGenerate == "assembled"

\* query, line 166: the call returns after its single predict
Returned == "done"

\* query, lines 144-166: get_llm, the prompt, llm.predict and the result;
\* an exception of llm.predict is not handled in query
QueryGenerate ==
    /\ qpc = "assembled"
    /\ \/ /\ qlog' = qlog \o <<"get_llm", "predict_raised">>
          /\ qresult' = [outcome |-> "raised", error |-> "backend"]
       \/ \E response \in Responses :
          /\ qlog' = qlog \o <<"get_llm", "predict">>
          /\ qresult' = [outcome |-> "returned",
                         result |-> QueryResult(documents, response, qargs.return_sources)]
    /\ qpc' = Returned
    /\ UNCHANGED <<storeVars, raceVars, auxVars, ingestVars, qargs, documents, context>>

NextQuery ==
    \/ QueryRetrieve
    \/ QueryNoContext
    \/ QueryAssemble
    \/ QueryGenerate

SpecQuery == InitQuery /\ [][NextQuery]_vars

BackendCalled == \E i \in DOMAIN qlog : qlog[i] \in {"get_llm", "predict", "predict_raised"}

\* C1: a query whose retrieval returned no documents returns the fixed
\* insufficient-knowledge answer and never calls the generation backend.
C1_NoContextSkipsBackend ==
    ("search" \in Range(qlog) /\ documents = <<>>) =>
        /\ ~BackendCalled
        /\ qpc = "done" =>
            /\ qresult.outcome = "returned"
            /\ qresult.result.answer = NoContextAnswer

C1_Witness ==
    /\ qpc = "done"
    /\ "search" \in Range(qlog)
    /\ documents = <<>>
    /\ qresult.outcome = "returned"

\* C2: query never propagates an exception of the generation backend: when
\* the backend call fails after a non-empty retrieval, query returns a result
\* whose answer is a degraded text carrying the error.
C2_BackendErrorBecomesAnswer ==
    (qpc = "done" /\ "predict_raised" \in Range(qlog)) =>
        /\ qresult.outcome = "returned"
        /\ qresult.result.answer = <<"degraded", "backend">>

\* C14: a query with an explicit k <= 0 is an input error: it raises, returns
\* no result and substitutes no other k.
C14_NonPositiveKIsError ==
    (qpc /= "idle" /\ qargs.k_given /\ qargs.k <= 0) =>
        /\ qpc = "done"
        /\ qresult.outcome = "raised"

\* C16: every result query returns carries answer and num_sources, and
\* num_sources is the number of units retrieved (0 when nothing was retrieved).
C16_ResultHasNumSources ==
    (qpc = "done" /\ qresult.outcome = "returned") =>
        /\ {"answer", "num_sources"} \subseteq DOMAIN qresult.result
        /\ qresult.result.num_sources = Len(documents)

BackendCalls == {i \in DOMAIN qlog : qlog[i] \in {"predict", "predict_raised"}}

IndexSearches == {i \in DOMAIN qlog : qlog[i] \in {"search", "search_raised"}}

\* C17: the stages of one query run in order without backtracking: the index
\* is searched once, the backend is called at most once and only after the
\* search returned, and no search follows a backend call.
C17_StagesInOrder ==
    /\ Cardinality(BackendCalls) <= 1
    /\ Cardinality(IndexSearches) <= 1
    /\ \A i \in BackendCalls : \E j \in 1..(i - 1) : qlog[j] = "search"
    /\ \A i \in BackendCalls : \A j \in IndexSearches : j < i
    /\ (qpc = "idle") <=> (qlog = <<>>)
    /\ BackendCalls /= {} => qpc = "done"

\* a query that went through retrieval, assembly and generation and returned
C17_Witness ==
    /\ qpc = "done"
    /\ qlog = <<"search", "get_llm", "predict">>
    /\ qresult.outcome = "returned"
    /\ Len(context) = 2

(***************************************************************************)
(* TextChunker (src/src/data_processing/text_chunker.py).  A text is a     *)
(* sequence of characters.  The chunker delegates to the                   *)
(* RecursiveCharacterTextSplitter it builds in __init__ (keep_separator    *)
(* and strip_whitespace at their defaults, True), modelled here as         *)
(* configured there: split on the first separator of the list found in the *)
(* text, keep the pieces shorter than chunk_size and merge them up to      *)
(* chunk_size with chunk_overlap carried over, split the others again with *)
(* the remaining separators.                                               *)
(***************************************************************************)
MaxTextLen == 4     \* longest text chunked
MaxChunkSize == 3   \* largest explicit chunk_size argument

CHUNK_SIZE == 1000
CHUNK_OVERLAP == 200

Chars == {"a", " ", "\n", ".", ","}
Whitespace == {" ", "\n"}
Texts == SeqsOf(Chars, 0, MaxTextLen)

\* a separator list that stops at the word level, without the final ""
SeparatorsWithoutChars ==
    << <<"\n", "\n", "\n">>, <<"\n", "\n">>, <<"\n">>, <<".", " ">>, <<",", " ">>, <<" ">> >>

\* self.separators, in priority order; <<>> is "", the character level
DefaultSeparators ==
    << <<"\n", "\n", "\n">>, <<"\n", "\n">>, <<"\n">>, <<".", " ">>, <<",", " ">>, <<" ">>, <<>> >>

\* does sep occur in t at position i
MatchAt(t, sep, i) ==
    /\ i + Len(sep) - 1 <= Len(t)
    /\ \A j \in 1..Len(sep) : t[i + j - 1] = sep[j]

\* re.search(re.escape(sep), t)
Found(t, sep) == \E i \in 1..Len(t) : MatchAt(t, sep, i)

\* str.strip()
RECURSIVE LStrip(_)
LStrip(t) == IF t /= <<>> /\ Head(t) \in Whitespace THEN LStrip(Tail(t)) ELSE t

RECURSIVE RStrip(_)
RStrip(t) ==
    IF t /= <<>> /\ t[Len(t)] \in Whitespace THEN RStrip(SubSeq(t, 1, Len(t) - 1)) ELSE t

Strip(t) == RStrip(LStrip(t))

RECURSIVE Concat(_)
Concat(pieces) == IF pieces = <<>> THEN <<>> ELSE Head(pieces) \o Concat(Tail(pieces))

NonEmpty(pieces) == SelectSeq(pieces, LAMBDA x : x /= <<>>)

\* _split_text_with_regex with keep_separator: the text before the first
\* match, then every match together with the text that follows it; "" splits
\* into characters; empty pieces are dropped
RECURSIVE SplitFrom(_, _, _, _)
SplitFrom(t, sep, i, cur) ==
    IF i > Len(t) THEN <<cur>>
    ELSE IF MatchAt(t, sep, i) THEN <<cur>> \o SplitFrom(t, sep, i + Len(sep), sep)
    ELSE SplitFrom(t, sep, i + 1, Append(cur, t[i]))

SplitWithSeparator(t, sep) ==
    IF sep = <<>> THEN [i \in 1..Len(t) |-> <<t[i]>>]
    ELSE NonEmpty(SplitFrom(t, sep, 1, <<>>))

\* _join_docs with separator "": the joined, stripped text, dropped when empty
JoinDocs(current) ==
    LET joined == Strip(Concat(current)) IN IF joined = <<>> THEN <<>> ELSE <<joined>>

Total(current) == Len(Concat(current))

\* the `while` of _merge_splits: pop from the front while more than the
\* overlap is kept, or while the next piece still does not fit
RECURSIVE PopFront(_, _, _, _)
PopFront(current, len, size, overlap) ==
    IF Total(current) > overlap \/ (Total(current) + len > size /\ Total(current) > 0)
    THEN PopFront(Tail(current), len, size, overlap)
    ELSE current

\* _merge_splits(splits, ""): the loop over the pieces from index i on
RECURSIVE MergeFrom(_, _, _, _, _)
MergeFrom(splits, i, current, size, overlap) ==
    IF i > Len(splits) THEN JoinDocs(current)
    ELSE LET d == splits[i] IN
         IF Total(current) + Len(d) > size /\ Len(current) > 0
         THEN JoinDocs(current)
              \o MergeFrom(splits, i + 1, Append(PopFront(current, Len(d), size, overlap), d),
                           size, overlap)
         ELSE MergeFrom(splits, i + 1, Append(current, d), size, overlap)

MergeSplits(splits, size, overlap) == MergeFrom(splits, 1, <<>>, size, overlap)

\* the separator _split_text chooses: the first one found in the text ("" is
\* always found), the last one when none is; and the separators left for the
\* pieces that are still too long
RECURSIVE ChooseSeparator(_, _, _)
ChooseSeparator(t, seps, i) ==
    IF i > Len(seps) THEN [sep |-> seps[Len(seps)], rest |-> <<>>]
    ELSE IF seps[i] = <<>> THEN [sep |-> <<>>, rest |-> <<>>]
    ELSE IF Found(t, seps[i]) THEN [sep |-> seps[i], rest |-> SubSeq(seps, i + 1, Len(seps))]
    ELSE ChooseSeparator(t, seps, i + 1)

\* may a piece go to the merge: `if self._length_function(s) < self._chunk_size`
IsGoodSplit(piece, size) == Len(piece) < size

\* RecursiveCharacterTextSplitter._split_text: the loop over the pieces from
\* index i on, `good` being _good_splits
RECURSIVE SplitText(_, _, _, _)
RECURSIVE SplitLoop(_, _, _, _, _, _)
SplitLoop(splits, i, good, rest, size, overlap) ==
    IF i > Len(splits)
    THEN IF good /= <<>> THEN MergeSplits(good, size, overlap) ELSE <<>>
    ELSE LET piece == splits[i] IN
         IF IsGoodSplit(piece, size)
         THEN SplitLoop(splits, i + 1, Append(good, piece), rest, size, overlap)
         ELSE (IF good /= <<>> THEN MergeSplits(good, size, overlap) ELSE <<>>)
              \o (IF rest = <<>> THEN <<piece>> ELSE SplitText(piece, rest, size, overlap))
              \o SplitLoop(splits, i + 1, <<>>, rest, size, overlap)

SplitText(t, seps, size, overlap) ==
    LET c == ChooseSeparator(t, seps, 1)
    IN SplitLoop(SplitWithSeparator(t, c.sep), 1, <<>>, c.rest, size, overlap)

\* TextChunker.__init__: `x or default` for both sizes, then the splitter's
\* own check of the overlap against the size
NewTextChunker(chunk_size, chunk_overlap) ==
    LET size == IF chunk_size = 0 THEN CHUNK_SIZE ELSE chunk_size
        overlap == IF chunk_overlap = 0 THEN CHUNK_OVERLAP ELSE chunk_overlap
    IN IF overlap > size
       THEN [state |-> "raised", chunk_size |-> size, chunk_overlap |-> overlap]
       ELSE [state |-> "ready", chunk_size |-> size, chunk_overlap |-> overlap]

\* TextChunker.chunk_text: one Document per segment, stamped with chunk_id
\* (0-based) and chunk_size
ChunkTextOf(c, t) ==
    LET segments == SplitText(t, DefaultSeparators, c.chunk_size, c.chunk_overlap)
    IN [i \in DOMAIN segments |->
           [page_content |-> segments[i], chunk_id |-> i - 1, chunk_size |-> Len(segments[i])]]

\* the arguments of a constructor call: chunk_size omitted (0) or explicit,
\* chunk_overlap omitted (0) or explicit, 0 included
ChunkerArguments ==
    {a \in [chunk_size : 0..MaxChunkSize, chunk_overlap : 0..MaxChunkSize,
            overlap_given : BOOLEAN] : ~a.overlap_given => a.chunk_overlap = 0}

InitChunk ==
    /\ text \in Texts
    /\ ctor \in ChunkerArguments
    /\ chunker = [state |-> "none"]
    /\ chunks = <<>>
    /\ StoreInit /\ RaceIdle /\ QueryIdle /\ LoadIdle /\ AuxIdle

Construct ==
    /\ chunker.state = "none"
    /\ chunker' = NewTextChunker(ctor.chunk_size, ctor.chunk_overlap)
    /\ UNCHANGED <<text, ctor, chunks, loadVars, storeVars, raceVars, auxVars, queryVars>>

ChunkText ==
    /\ chunker.state = "ready"
    /\ chunks' = ChunkTextOf(chunker, text)
    /\ chunker' = [chunker EXCEPT !.state = "used"]
    /\ UNCHANGED <<text, ctor, loadVars, storeVars, raceVars, auxVars, queryVars>>

NextChunk ==
    \/ Construct
    \/ ChunkText

SpecChunk == InitChunk /\ [][NextChunk]_vars

C29_ExplicitSizesUsed ==
    (chunker.state /= "none" /\ ctor.chunk_size > 0 /\ ctor.overlap_given
        /\ ctor.chunk_overlap <= ctor.chunk_size) =>
        /\ chunker.state /= "raised"
        /\ chunker.chunk_size = ctor.chunk_size
        /\ chunker.chunk_overlap = ctor.chunk_overlap

\* the last n characters of t, and the first n
Suffix(t, n) == SubSeq(t, Len(t) - n + 1, Len(t))

Prefix(t, n) == SubSeq(t, 1, n)

\* C23: when the text is at least chunk_size + chunk_overlap characters long,
\* consecutive segments overlap by exactly chunk_overlap characters: the last
\* chunk_overlap characters of a segment are the first of the next.
C23_ExactOverlap ==
    (chunker.state = "used" /\ Len(text) >= chunker.chunk_size + chunker.chunk_overlap) =>
        \A i \in 1..(Len(chunks) - 1) :
            /\ Len(chunks[i].page_content) >= chunker.chunk_overlap
            /\ Len(chunks[i + 1].page_content) >= chunker.chunk_overlap
            /\ Suffix(chunks[i].page_content, chunker.chunk_overlap)
                  = Prefix(chunks[i + 1].page_content, chunker.chunk_overlap)

(***************************************************************************)
(* DocumentLoader (src/src/data_processing/document_loader.py) and         *)
(* DocumentProcessor.load_document (src/src/rag/document_processor.py).    *)
(* A path is its suffix as written, whether the file exists, whether the   *)
(* format loader can read it, and the number of pages it yields.           *)
(***************************************************************************)
MaxFiles == 2       \* files a directory enumeration yields
MaxPages == 2       \* documents one file yields

Suffixes == {".pdf", ".PDF", ".docx", ".doc", ".txt", ".md", ".markdown", ".MD", ".xyz", ""}

\* str.lower() on the suffixes above
Lower(suffix) ==
    CASE suffix = ".PDF" -> ".pdf"
      [] suffix = ".MD" -> ".md"
      [] OTHER -> suffix

\* DocumentLoader.SUPPORTED_EXTENSIONS
SUPPORTED_EXTENSIONS ==
    [e \in {".pdf", ".docx", ".txt", ".md"} |->
        CASE e = ".pdf" -> "PyPDFLoader"
          [] e = ".docx" -> "Docx2txtLoader"
          [] e = ".txt" -> "TextLoader"
          [] e = ".md" -> "UnstructuredMarkdownLoader"]

\* utils/file_utils.py
ALLOWED_EXTENSIONS == {".pdf", ".txt", ".docx", ".doc", ".md", ".markdown"}

\* the if/elif chain of DocumentProcessor.load_document; "none" is its else
ProcessorLoader(ext) ==
    IF ext = ".pdf" THEN "PyPDFLoader"
    ELSE IF ext = ".txt" THEN "TextLoader"
    ELSE IF ext \in {".docx", ".doc"} THEN "Docx2txtLoader"
    ELSE IF ext \in {".md", ".markdown"} THEN "UnstructuredMarkdownLoader"
    ELSE "none"

\* the types the ValueError of that else branch lists
ProcessorListedTypes == {".pdf", ".txt", ".docx", ".doc", ".md"}

\* loader.load(): one Document per page
Pages(name, path) == [p \in 1..path.pages |-> [source_file |-> name, page |-> p]]

Raised(error) == [outcome |-> "raised", error |-> error, loader |-> "none", docs |-> <<>>]

\* DocumentLoader.load_single_document
LoadSingleDocument(name, path) ==
    LET extension == Lower(path.suffix) IN
    IF extension \notin DOMAIN SUPPORTED_EXTENSIONS
    THEN Raised([kind |-> "unsupported", extension |-> extension,
                 supported |-> DOMAIN SUPPORTED_EXTENSIONS])
    ELSE IF ~(path.exists /\ path.loads)
    THEN [Raised([kind |-> "loader"]) EXCEPT !.loader = SUPPORTED_EXTENSIONS[extension]]
    ELSE [outcome |-> "ok", error |-> [kind |-> "none"],
          loader |-> SUPPORTED_EXTENSIONS[extension], docs |-> Pages(name, path)]

\* DocumentProcessor.load_document
LoadDocument(name, path) ==
    LET file_extension == Lower(path.suffix) IN
    IF ~path.exists
    THEN Raised([kind |-> "not_found"])
    ELSE IF ProcessorLoader(file_extension) = "none"
    THEN Raised([kind |-> "unsupported", extension |-> file_extension,
                 supported |-> ProcessorListedTypes])
    ELSE IF ~path.loads
    THEN [Raised([kind |-> "loader"]) EXCEPT !.loader = ProcessorLoader(file_extension)]
    ELSE [outcome |-> "ok", error |-> [kind |-> "none"],
          loader |-> ProcessorLoader(file_extension), docs |-> Pages(name, path)]

\* a loop that gives up at the first file that fails
RECURSIVE LoadUntilFailure(_, _)
LoadUntilFailure(files, i) ==
    IF i > Len(files) THEN [docs |-> <<>>, attempted |-> <<>>]
    ELSE LET r == LoadSingleDocument(i, files[i]) IN
         IF r.outcome = "raised" THEN [docs |-> <<>>, attempted |-> <<i>>]
         ELSE LET rest == LoadUntilFailure(files, i + 1)
              IN [docs |-> r.docs \o rest.docs, attempted |-> <<i>> \o rest.attempted]

\* the loop of load_documents_from_directory over the enumerated files, from
\* index i on: a file that raises is logged and skipped
RECURSIVE LoadFrom(_, _)
LoadFrom(files, i) ==
    IF i > Len(files) THEN [docs |-> <<>>, attempted |-> <<>>]
    ELSE LET r == LoadSingleDocument(i, files[i])
             rest == LoadFrom(files, i + 1)
         IN [docs |-> (IF r.outcome = "ok" THEN r.docs ELSE <<>>) \o rest.docs,
             attempted |-> <<i>> \o rest.attempted]

Paths == [suffix : Suffixes, exists : BOOLEAN, loads : BOOLEAN, pages : 1..MaxPages]

\* what rglob/glob of "*<ext>" yields for the extensions of the table
Enumerated ==
    SeqsOf([suffix : DOMAIN SUPPORTED_EXTENSIONS, exists : {TRUE},
            loads : BOOLEAN, pages : 1..MaxPages], 0, MaxFiles)

InitLoad == LoadIdle /\ ChunkIdle /\ StoreInit /\ RaceIdle /\ QueryIdle /\ AuxIdle

LoaderLoadSingle ==
    /\ lret.op = "none"
    /\ \E path \in Paths :
        lret' = [op |-> "load_single_document", path |-> path,
                 r |-> LoadSingleDocument(0, path)]
    /\ UNCHANGED <<chunkVars, storeVars, raceVars, auxVars, queryVars>>

ProcessorLoad ==
    /\ lret.op = "none"
    /\ \E path \in Paths :
        lret' = [op |-> "load_document", path |-> path, r |-> LoadDocument(0, path)]
    /\ UNCHANGED <<chunkVars, storeVars, raceVars, auxVars, queryVars>>

LoadDirectory ==
    /\ lret.op = "none"
    /\ \E files \in Enumerated :
        lret' = [op |-> "load_documents_from_directory", files |-> files,
                 r |-> LoadFrom(files, 1)]
    /\ UNCHANGED <<chunkVars, storeVars, raceVars, auxVars, queryVars>>

NextLoad ==
    \/ LoaderLoadSingle
    \/ ProcessorLoad
    \/ LoadDirectory

SpecLoad == InitLoad /\ [][NextLoad]_vars

SingleLoad == lret.op \in {"load_single_document", "load_document"}

\* the documents of the files that load, in enumeration order
RECURSIVE DocsOfLoadable(_, _)
DocsOfLoadable(files, i) ==
    IF i > Len(files) THEN <<>>
    ELSE (IF files[i].loads THEN Pages(i, files[i]) ELSE <<>>) \o DocsOfLoadable(files, i + 1)

\* C8: a directory load returns the documents of exactly the files that
\* load, and attempts every enumerated file, whichever files fail.
C8_DirectorySkipsFailures ==
    lret.op = "load_documents_from_directory" =>
        /\ lret.r.docs = DocsOfLoadable(lret.files, 1)
        /\ lret.r.attempted = [i \in 1..Len(lret.files) |-> i]

\* a failing file followed by a file that loads
C8_Witness ==
    /\ lret.op = "load_documents_from_directory"
    /\ Len(lret.files) = 2
    /\ ~lret.files[1].loads
    /\ lret.files[2].loads
    /\ lret.r.docs /= <<>>

\* the formats the specification lists as supported
SupportedFormats == {".pdf", ".docx", ".doc", ".txt", ".md", ".markdown"}

\* what a single-file API dispatches to a loader
Accepted(op) ==
    IF op = "load_single_document" THEN DOMAIN SUPPORTED_EXTENSIONS
    ELSE {e \in {Lower(x) : x \in Suffixes} : ProcessorLoader(e) /= "none"}

\* C9: a single-file load of an existing path whose extension is outside the
\* supported table fails with an error naming the extension and the
\* supported set; it returns no documents and invokes no loader.
C9_UnsupportedIsRejected ==
    (SingleLoad /\ lret.path.exists /\ Lower(lret.path.suffix) \notin Accepted(lret.op)) =>
        /\ lret.r.outcome = "raised"
        /\ lret.r.loader = "none"
        /\ lret.r.docs = <<>>
        /\ lret.r.error.kind = "unsupported"
        /\ lret.r.error.extension = Lower(lret.path.suffix)
        /\ lret.r.error.supported = Accepted(lret.op)

\* C10: both single-file APIs dispatch exactly the six supported formats,
\* case-insensitively, to a loader, and the upload allow-list admits nothing
\* a loader rejects.
C10_SixFormatsAccepted ==
    (SingleLoad /\ lret.path.exists) =>
        /\ lret.r.loader /= "none" <=> Lower(lret.path.suffix) \in SupportedFormats
        /\ Lower(lret.path.suffix) \in ALLOWED_EXTENSIONS => lret.r.loader /= "none"

(***************************************************************************)
(* MetadataHandler (src/src/data_processing/metadata_handler.py).          *)
(* Metadata is a finite map from keys to values; <<>> is the empty dict.   *)
(***************************************************************************)
MaxEnrich == 2      \* applications of enrich_metadata to one document
MaxUnits == 3       \* longest list handed to aggregate_sources

\* dict.update(other)
Update(m, other) ==
    [k \in DOMAIN m \cup DOMAIN other |-> IF k \in DOMAIN other THEN other[k] ELSE m[k]]

\* d[key] = value
Put(m, key, value) ==
    [k \in DOMAIN m \cup {key} |-> IF k = key THEN value ELSE m[k]]

\* dict.get(key, default)
Get(m, key, default) == IF key \in DOMAIN m THEN m[key] ELSE default

\* hash(page_content): a fixed function of the content within one process
Hash(content) == content + 10

\* an enrichment that stamps the time on every application
EnrichAlwaysStamps(doc, extra, t) ==
    LET updated == Update(doc.metadata, extra)
        stamped == Put(updated, "processed_at", t)
        hashed == IF "content_hash" \in DOMAIN stamped THEN stamped
                  ELSE Put(stamped, "content_hash", Hash(doc.page_content))
    IN [doc EXCEPT !.metadata = hashed]

\* enrich_metadata(document, additional_metadata) at time t; an empty extra
\* is falsy and updates nothing
EnrichMetadata(doc, extra, t) ==
    LET updated == Update(doc.metadata, extra)
        stamped == IF "processed_at" \in DOMAIN updated THEN updated
                   ELSE Put(updated, "processed_at", t)
        hashed == IF "content_hash" \in DOMAIN stamped THEN stamped
                  ELSE Put(stamped, "content_hash", Hash(doc.page_content))
    IN [doc EXCEPT !.metadata = hashed]

EnrichKeys == {"processed_at", "content_hash", "category"}

\* documents as they reach enrich_metadata: any of the keys already present
EnrichDocuments ==
    {[page_content |-> c, metadata |-> m] :
        c \in 1..2, m \in UNION {[S -> {0}] : S \in SUBSET EnrichKeys}}

\* extra mappings: any of the keys, the two stamped keys included
Extras == UNION {[S -> {5}] : S \in SUBSET EnrichKeys}

InitEnrich ==
    /\ document \in EnrichDocuments
    /\ additional_metadata \in Extras
    /\ now = 1
    /\ enriched = <<>>
    /\ StoreInit /\ RaceIdle /\ QueryIdle /\ IngestIdle
    /\ CiteIdle /\ WriteIdle /\ DepsIdle /\ LateIdle

\* one more application to the same document with the same extra, later
EnrichAgain ==
    /\ Len(enriched) < MaxEnrich
    /\ document' = EnrichMetadata(document, additional_metadata, now)
    /\ enriched' = Append(enriched, document'.metadata)
    /\ now' = now + 1
    /\ UNCHANGED <<additional_metadata, citeVars, writeVars, depVars, lateVars,
                   storeVars, raceVars, queryVars, ingestVars>>

NextEnrich == EnrichAgain

SpecEnrich == InitEnrich /\ [][NextEnrich]_vars

\* C12: enrich_metadata is idempotent: every later application with the same
\* extra leaves all metadata fields, processed_at and content_hash included,
\* as the first application left them.
C12_EnrichIdempotent ==
    \A i \in DOMAIN enriched : enriched[i] = enriched[1]

\* the first application stamped the time and the hash, and a second followed
C12_Witness ==
    /\ Len(enriched) = 2
    /\ enriched[1]["processed_at"] = 1
    /\ enriched[1]["content_hash"] = Hash(document.page_content)
    /\ now = 3

\* extract_citation_info: the citation of one document
ExtractCitationInfo(doc) ==
    LET metadata == doc.metadata
    IN [k \in {"source_document", "category", "section", "page"}
               \cup (DOMAIN metadata \cap {"title", "author"}) |->
           CASE k = "source_document" -> Get(metadata, "source_file", "Unknown")
             [] k = "category" -> Get(metadata, "category", "General")
             [] k = "section" -> Get(metadata, "section", "N/A")
             [] k = "page" -> Get(metadata, "page", "N/A")
             [] OTHER -> metadata[k]]

\* source_key of aggregate_sources
SourceKey(citation) == <<citation["source_document"], Get(citation, "page", "N/A")>>

\* an aggregation that appends every citation
RECURSIVE AggregateAll(_, _, _)
AggregateAll(docs, i, seen_sources) ==
    IF i > Len(docs) THEN <<>>
    ELSE <<ExtractCitationInfo(docs[i])>> \o AggregateAll(docs, i + 1, seen_sources)

\* the loop of aggregate_sources from document i on
RECURSIVE AggregateFrom(_, _, _)
AggregateFrom(docs, i, seen_sources) ==
    IF i > Len(docs) THEN <<>>
    ELSE LET citation == ExtractCitationInfo(docs[i])
             source_key == SourceKey(citation)
         IN IF source_key \notin seen_sources
            THEN <<citation>> \o AggregateFrom(docs, i + 1, seen_sources \cup {source_key})
            ELSE AggregateFrom(docs, i + 1, seen_sources)

AggregateSources(docs) == AggregateFrom(docs, 1, {})

\* retrieved units: source_file, page and title each present or absent
CiteMetadatas ==
    {Update(Update(a, b), c) :
        a \in {<<>>} \cup {[k \in {"source_file"} |-> f] : f \in {"A.pdf", "B.pdf"}},
        b \in {<<>>, [k \in {"page"} |-> "1"]},
        c \in {<<>>, [k \in {"title"} |-> "Guide"]}}

CiteDocuments == {[page_content |-> 1, metadata |-> m] : m \in CiteMetadatas}

InitCite ==
    /\ cited \in SeqsOf(CiteDocuments, 0, MaxUnits)
    /\ unique_citations = [called |-> FALSE, value |-> <<>>]
    /\ StoreInit /\ RaceIdle /\ QueryIdle /\ IngestIdle
    /\ EnrichIdle /\ WriteIdle /\ DepsIdle /\ LateIdle

AggregateCall ==
    /\ ~unique_citations.called
    /\ unique_citations' = [called |-> TRUE, value |-> AggregateSources(cited)]
    /\ UNCHANGED <<cited, enrichVars, writeVars, depVars, lateVars,
                   storeVars, raceVars, queryVars, ingestVars>>

NextCite == AggregateCall

SpecCite == InitCite /\ [][NextCite]_vars

\* the key of the i-th input unit, and the units that are first with their key
KeyOfUnit(i) == SourceKey(ExtractCitationInfo(cited[i]))

FirstOccurrences == {i \in DOMAIN cited : \A j \in 1..(i - 1) : KeyOfUnit(j) /= KeyOfUnit(i)}

\* C11: aggregate_sources returns one citation per distinct
\* (source_document, page) key: no two results share a key, no input key is
\* missing, and the results are the citations of the first unit of each key,
\* in order of first occurrence.
C11_AggregateFirstPerKey ==
    unique_citations.called =>
        LET r == unique_citations.value IN
        /\ \A a, b \in DOMAIN r : a /= b => SourceKey(r[a]) /= SourceKey(r[b])
        /\ \A i \in DOMAIN cited : \E a \in DOMAIN r : SourceKey(r[a]) = KeyOfUnit(i)
        /\ Len(r) = Cardinality(FirstOccurrences)
        /\ \A a \in DOMAIN r : \E i \in FirstOccurrences :
              /\ r[a] = ExtractCitationInfo(cited[i])
              /\ Cardinality({j \in FirstOccurrences : j < i}) = a - 1

\* a later unit repeats the key of an earlier one with another citation
C11_Witness ==
    /\ unique_citations.called
    /\ Len(cited) = 3
    /\ Len(unique_citations.value) = 2
    /\ KeyOfUnit(1) = KeyOfUnit(2)
    /\ ExtractCitationInfo(cited[1]) /= ExtractCitationInfo(cited[2])

(***************************************************************************)
(* SpecContext: one RAGRetriever.query over a collection of chunks as the  *)
(* ingestion produces them with the default settings: up to top_k_results  *)
(* units, each a short chunk or a full chunk of CHUNK_SIZE characters.     *)
(* A content is named by its length in characters.                         *)
(***************************************************************************)
\* the context budget the code base defines: the default of
\* TextChunker.optimize_chunks_for_context, which query never calls
max_context_length == 4000

\* len(page_content)
ContentLength(content) == content

RECURSIVE SumLengths(_)
SumLengths(ctx) ==
    IF ctx = <<>> THEN 0 ELSE ContentLength(Head(ctx)) + SumLengths(Tail(ctx))

\* len("\n\n".join(contents))
ContextLength(ctx) ==
    IF ctx = <<>> THEN 0 ELSE SumLengths(ctx) + 2 * (Len(ctx) - 1)

ChunkUnits == {[page_content |-> 1, keys |-> LoaderChunkKeys],
               [page_content |-> CHUNK_SIZE, keys |-> LoaderChunkKeys]}

InitContext ==
    /\ \E n \in 0..top_k_results : \E docs \in [1..n -> ChunkUnits] :
        /\ collection = [exists |-> TRUE, uid |-> 1, docs |-> docs]
        /\ before = n
        /\ nextId = n + 1
    /\ vectorstore = 1
    /\ nextUid = 2
    /\ ret = NoRet
    /\ RaceIdle
    /\ QueryIdle
    /\ IngestIdle
    /\ AuxIdle

SpecContext == InitContext /\ [][NextQuery]_vars

\* C13: the context query hands to the generation backend never exceeds the
\* maximum total length, and it is made of whole units: the ranked units, or
\* a leading part of them when they do not all fit.
C13_ContextWithinLimit ==
    (qpc = "assembled" \/ BackendCalled) =>
        /\ ContextLength(context) <= max_context_length
        /\ \E n \in 0..Len(documents) : context = JoinContext(Take(documents, n))

(***************************************************************************)
(* SpecWriters: one thread runs add_documents while another runs           *)
(* clear_collection on the same VectorStore; no store failures.  The clear *)
(* thread takes the steps of SpecRace; the add thread reads                *)
(* self.vectorstore and then writes through the wrapper it read.  `before` *)
(* holds the documents of the collection before either call.               *)
(***************************************************************************)
\* add_documents, line 79: the read of self.vectorstore (ids are generated)
AddRead ==
    /\ wpc = "idle"
    /\ \E batch \in SeqsOf(Documents, 1, 1) :
        whandle' = [uid |-> vectorstore, batch |-> batch]
    /\ wpc' = "read"
    /\ UNCHANGED <<storeVars, raceVars, wret, enrichVars, citeVars, depVars, lateVars,
                   queryVars, ingestVars>>

\* add_documents, lines 79-85: the Chroma upsert through the wrapper read
AddExec ==
    /\ wpc = "read"
    /\ LET document_ids == DocumentIds(whandle.batch, <<>>)
       IN IF ~Bound(collection, whandle.uid)
          THEN /\ wret' = [outcome |-> "raised", ids |-> <<>>]
               /\ UNCHANGED <<collection, nextId>>
          ELSE /\ collection' = [collection EXCEPT !.docs = Upsert(@, whandle.batch, document_ids)]
               /\ nextId' = nextId + Len(whandle.batch)
               /\ wret' = [outcome |-> "ok", ids |-> document_ids]
    /\ wpc' = "done"
    /\ UNCHANGED <<vectorstore, nextUid, ret, before, raceVars, whandle,
                   enrichVars, citeVars, depVars, lateVars, queryVars, ingestVars>>

NextWriters ==
    \/ ClearDelete
    \/ ClearRecreate
    \/ AddRead
    \/ AddExec

SpecWriters == InitRace /\ [][NextWriters]_vars

\* C18: an add racing with a clear is serialized against it: the add succeeds
\* and the collection ends as after add-then-clear (empty) or after
\* clear-then-add (exactly the added units); the add never writes to the
\* collection the clear has deleted.
C18_WritersSerialized ==
    (wpc = "done" /\ cpc = "done") =>
        /\ wret.outcome = "ok"
        /\ \/ collection.docs = EmptyDocs
           \/ collection.docs = Upsert(EmptyDocs, whandle.batch, wret.ids)

(***************************************************************************)
(* SpecDeps: threads of the request pool calling get_vector_store          *)
(* (src/src/api/dependencies.py).  VectorStore instances are numbered in   *)
(* the order of their construction.                                        *)
(***************************************************************************)
\* line 27: if _vector_store is None
DepCheck(t) ==
    /\ tpc[t] = "idle"
    /\ tpc' = [tpc EXCEPT ![t] = IF _vector_store = 0 THEN "construct" ELSE "return"]
    /\ UNCHANGED <<_vector_store, tlocal, constructed>>

\* line 29, right-hand side: VectorStore()
DepConstruct(t) ==
    /\ tpc[t] = "construct"
    /\ constructed' = constructed + 1
    /\ tlocal' = [tlocal EXCEPT ![t] = constructed + 1]
    /\ tpc' = [tpc EXCEPT ![t] = "assign"]
    /\ UNCHANGED _vector_store

\* line 29, the assignment to the global
DepAssign(t) ==
    /\ tpc[t] = "assign"
    /\ _vector_store' = tlocal[t]
    /\ tpc' = [tpc EXCEPT ![t] = "return"]
    /\ UNCHANGED <<tlocal, constructed>>

\* line 30: return _vector_store
DepReturn(t) ==
    /\ tpc[t] = "return"
    /\ tlocal' = [tlocal EXCEPT ![t] = _vector_store]
    /\ tpc' = [tpc EXCEPT ![t] = "done"]
    /\ UNCHANGED <<_vector_store, constructed>>

GetVectorStoreCheck ==
    /\ \E t \in Threads : DepCheck(t)
    /\ UNCHANGED <<storeVars, raceVars, queryVars, ingestVars, enrichVars, citeVars, writeVars,
                   lateVars>>

GetVectorStoreConstruct ==
    /\ \E t \in Threads : DepConstruct(t)
    /\ UNCHANGED <<storeVars, raceVars, queryVars, ingestVars, enrichVars, citeVars, writeVars,
                   lateVars>>

GetVectorStoreAssign ==
    /\ \E t \in Threads : DepAssign(t)
    /\ UNCHANGED <<storeVars, raceVars, queryVars, ingestVars, enrichVars, citeVars, writeVars,
                   lateVars>>

GetVectorStoreReturn ==
    /\ \E t \in Threads : DepReturn(t)
    /\ UNCHANGED <<storeVars, raceVars, queryVars, ingestVars, enrichVars, citeVars, writeVars,
                   lateVars>>

InitDeps == StoreInit /\ RaceIdle /\ QueryIdle /\ IngestIdle /\ AuxIdle

NextDeps ==
    \/ GetVectorStoreCheck
    \/ GetVectorStoreConstruct
    \/ GetVectorStoreAssign
    \/ GetVectorStoreReturn

SpecDeps == InitDeps /\ [][NextDeps]_vars

\* C19: the process holds one collection handle: at most one VectorStore is
\* ever constructed and every call of get_vector_store returns that instance.
C19_SingleVectorStore ==
    /\ constructed <= 1
    /\ \A t, u \in Threads :
          (tpc[t] = "done" /\ tpc[u] = "done") => tlocal[t] = tlocal[u]

(***************************************************************************)
(* SpecEmbed: handles opened on one collection name and persist directory  *)
(* with any embedding model (the embedding_model argument of               *)
(* VectorStore.__init__), adds and clears; no store failures.  An embedding *)
(* model is its name and the dimension of its vectors; Chroma refuses a    *)
(* vector whose dimension differs from that of the collection.             *)
(***************************************************************************)
EmbeddingModels ==
    {[name |-> 1, dim |-> 1], [name |-> 2, dim |-> 1], [name |-> 3, dim |-> 2]}

\* the models whose vectors are stored in the collection
StoredModels == {embedded[i] : i \in DOMAIN embedded}

\* would Chroma refuse a vector of model m (another dimension than the stored ones)
DimensionMismatch(m) == \E e \in StoredModels : e.dim /= m.dim

\* `embedded` after a call: the units still stored keep their model, the
\* units the call added were embedded by the handle's model
EmbeddedAfter(docs) ==
    [i \in DOMAIN docs |-> IF i \in DOMAIN embedded THEN embedded[i] ELSE embeddings]

\* VectorStore(collection_name, persist_directory, embedding_model): lines 35-59
EmbedOpen ==
    /\ \E m \in EmbeddingModels : embeddings' = m
    /\ OpenStore(FALSE)
    /\ embedded' = [i \in DOMAIN collection'.docs |-> embedded[i]]
    /\ UNCHANGED <<raceVars, queryVars, ingestVars, enrichVars, citeVars, writeVars, depVars,
                   filterVars, optimized, pipeline, chatVars>>

\* add_documents through the handle: the units are embedded by self.embeddings
EmbedAdd ==
    /\ \E batch \in SeqsOf(Documents, 1, 1) :
        /\ nextId + Len(batch) - 1 <= MaxDocs
        /\ AddDocuments(batch, <<>>, DimensionMismatch(embeddings))
    /\ embedded' = EmbeddedAfter(collection'.docs)
    /\ UNCHANGED <<embeddings, raceVars, queryVars, ingestVars, enrichVars, citeVars, writeVars,
                   depVars, filterVars, optimized, pipeline, chatVars>>

\* clear_collection: the new wrapper is built with the same self.embeddings
EmbedClear ==
    /\ ClearCollection("none")
    /\ embedded' = [i \in DOMAIN collection'.docs |-> embedded[i]]
    /\ UNCHANGED <<embeddings, raceVars, queryVars, ingestVars, enrichVars, citeVars, writeVars,
                   depVars, filterVars, optimized, pipeline, chatVars>>

InitEmbed == StoreInit /\ RaceIdle /\ QueryIdle /\ IngestIdle /\ AuxIdle

NextEmbed ==
    \/ EmbedOpen
    \/ EmbedAdd
    \/ EmbedClear

SpecEmbed == InitEmbed /\ [][NextEmbed]_vars

\* C21: a collection has one embedding function for its lifetime: the units
\* stored in it at any time were all embedded by the same model.
C21_OneEmbeddingPerCollection ==
    \A i, j \in DOMAIN embedded : embedded[i] = embedded[j]

(***************************************************************************)
(* SpecFilter: one MetadataHandler.filter_by_metadata call.  Criteria are  *)
(* Dict[str, Any]: a criterion value may be any Python value, None         *)
(* included.                                                               *)
(***************************************************************************)
\* Python's None
None == "None"

\* dict.get(key): the value, or None when the key is absent
GetOrNone(m, key) == Get(m, key, None)

\* filter_by_metadata: the documents for which no criterion differs
FilterByMetadata(docs, filters) ==
    SelectSeq(docs, LAMBDA doc :
        \A key \in DOMAIN filters : ~(GetOrNone(doc.metadata, key) /= filters[key]))

FilterKeys == {"category", "author"}

FilterDocuments ==
    {[page_content |-> 1, metadata |-> m] :
        m \in UNION {[S -> {"A", "B"}] : S \in SUBSET FilterKeys}}

Criteria == UNION {[S -> {"A", None}] : S \in SUBSET FilterKeys}

InitFilter ==
    /\ filter_args \in [documents : SeqsOf(FilterDocuments, 0, MaxUnits), filters : Criteria]
    /\ filtered_docs = [called |-> FALSE, value |-> <<>>]
    /\ StoreInit /\ RaceIdle /\ QueryIdle /\ IngestIdle
    /\ EnrichIdle /\ CiteIdle /\ WriteIdle /\ DepsIdle
    /\ EmbedIdle /\ OptimizeIdle /\ PipelineIdle /\ ChatIdle

FilterCall ==
    /\ ~filtered_docs.called
    /\ filtered_docs' = [called |-> TRUE,
                         value |-> FilterByMetadata(filter_args.documents, filter_args.filters)]
    /\ UNCHANGED <<filter_args, storeVars, raceVars, queryVars, ingestVars, enrichVars, citeVars,
                   writeVars, depVars, embedVars, optimized, pipeline, chatVars>>

NextFilter == FilterCall

SpecFilter == InitFilter /\ [][NextFilter]_vars

\* does the unit have every criterion key, with the criterion's value
MeetsCriteria(doc, filters) ==
    \A key \in DOMAIN filters :
        key \in DOMAIN doc.metadata /\ doc.metadata[key] = filters[key]

\* C22: filter_by_metadata returns, in input order, exactly the units that have
\* every criterion key in their metadata with the criterion's value; with no
\* criteria it returns every unit.
C22_FilterExactMatch ==
    filtered_docs.called =>
        /\ filtered_docs.value =
              SelectSeq(filter_args.documents, LAMBDA doc : MeetsCriteria(doc, filter_args.filters))
        /\ filter_args.filters = <<>> => filtered_docs.value = filter_args.documents

(***************************************************************************)
(* SpecOptimize: a TextChunker is constructed, splits one text, and its    *)
(* chunks go through one optimize_chunks_for_context call.                 *)
(***************************************************************************)
\* the values of the max_context_length argument
ContextLimits == 1..MaxChunkSize

\* the Document built for the i-th (0-based) sub-chunk of an oversized chunk:
\* chunk.metadata.copy() with sub_chunk_id set
SubChunkOneBased(chunk, i, sub_chunk) ==
    [page_content |-> sub_chunk, chunk_id |-> chunk.chunk_id, chunk_size |-> chunk.chunk_size,
     sub_chunk_id |-> i + 1]

SubChunk(chunk, i, sub_chunk) ==
    [page_content |-> sub_chunk, chunk_id |-> chunk.chunk_id, chunk_size |-> chunk.chunk_size,
     sub_chunk_id |-> i]

\* one turn of the loop: the chunk itself when it fits, else its sub-chunks
\* from a splitter of chunk_size limit and the chunker's own overlap
OptimizedChunk(c, chunk, limit) ==
    IF Len(chunk.page_content) <= limit THEN <<chunk>>
    ELSE LET sub_chunks == SplitText(chunk.page_content, DefaultSeparators, limit,
                                     c.chunk_overlap)
         IN [i \in DOMAIN sub_chunks |-> SubChunk(chunk, i - 1, sub_chunks[i])]

\* TextChunker.optimize_chunks_for_context: the sub-splitter's constructor
\* raises on the first oversized chunk when the chunker's overlap exceeds limit
OptimizeChunksForContext(c, chs, limit) ==
    IF (\E i \in DOMAIN chs : Len(chs[i].page_content) > limit) /\ c.chunk_overlap > limit
    THEN [state |-> "raised", max_context_length |-> limit, value |-> <<>>]
    ELSE [state |-> "ok", max_context_length |-> limit,
          value |-> Concat([i \in DOMAIN chs |-> OptimizedChunk(c, chs[i], limit)])]

OptimizeChunks ==
    /\ chunker.state = "used"
    /\ optimized.state = "none"
    /\ \E limit \in ContextLimits : optimized' = OptimizeChunksForContext(chunker, chunks, limit)
    /\ UNCHANGED <<chunkVars, loadVars, storeVars, raceVars, queryVars, enrichVars, citeVars,
                   writeVars, depVars, embedVars, filterVars, pipeline, chatVars>>

NextOptimize ==
    \/ Construct
    \/ ChunkText
    \/ OptimizeChunks

SpecOptimize == InitChunk /\ [][NextOptimize]_vars

\* is the returned chunk a fragment of a re-split chunk
IsFragment(chunk) == "sub_chunk_id" \in DOMAIN chunk

\* was the input chunk within the limit of the call
WithinLimit(chunk) == Len(chunk.page_content) <= optimized.max_context_length

\* the input chunk with the given chunk_id
ParentsOf(fragment) == {i \in DOMAIN chunks : chunks[i].chunk_id = fragment.chunk_id}

C27_ChunkSizeIsLength ==
    optimized.state = "ok" =>
        \A i \in DOMAIN optimized.value :
            optimized.value[i].chunk_size = Len(optimized.value[i].page_content)

(***************************************************************************)
(* SpecPipeline: the chunking step of ingestion.  Either a TextChunker is  *)
(* constructed and runs chunk_documents, or a DocumentProcessor (the one   *)
(* the API builds) is constructed and runs process_file; `pipeline` is     *)
(* "processor" from the DocumentProcessor's construction on and "chunker"  *)
(* once TextChunker.chunk_documents has run.                               *)
(***************************************************************************)
\* settings.chunk_size and settings.chunk_overlap of core/config.py
settings_chunk_size == 1000
settings_chunk_overlap == 200

\* the separators DocumentProcessor gives its splitter
ProcessorSeparators == << <<"\n", "\n">>, <<"\n">>, <<" ">>, <<>> >>

\* what the loader returns for the file: one Document per page, here two
\* pages of the same text
LoadedDocuments == [p \in 1..2 |-> [page_content |-> text, page |-> p - 1]]

\* DocumentProcessor.__init__: `x or settings.x` for both sizes, then the
\* splitter's own check of the overlap against the size
NewDocumentProcessor(chunk_size, chunk_overlap) ==
    LET size == IF chunk_size = 0 THEN settings_chunk_size ELSE chunk_size
        overlap == IF chunk_overlap = 0 THEN settings_chunk_overlap ELSE chunk_overlap
    IN IF overlap > size
       THEN [state |-> "raised", chunk_size |-> size, chunk_overlap |-> overlap]
       ELSE [state |-> "ready", chunk_size |-> size, chunk_overlap |-> overlap]

\* TextSplitter.split_documents: the segments of every document in turn, each
\* with a copy of its document's metadata
SplitDocuments(c, seps, docs) ==
    Concat([d \in DOMAIN docs |->
        LET segments == SplitText(docs[d].page_content, seps, c.chunk_size, c.chunk_overlap)
        IN [i \in DOMAIN segments |-> [page_content |-> segments[i], page |-> docs[d].page]]])

\* TextChunker.chunk_documents: chunk_id and chunk_size on every chunk
ChunkerChunkDocuments(c, docs) ==
    LET chunked_docs == SplitDocuments(c, DefaultSeparators, docs)
    IN [i \in DOMAIN chunked_docs |->
           [page_content |-> chunked_docs[i].page_content, page |-> chunked_docs[i].page,
            chunk_id |-> i - 1, chunk_size |-> Len(chunked_docs[i].page_content)]]

\* DocumentProcessor.chunk_documents: chunk_id on every chunk
ProcessorChunkDocuments(c, docs) ==
    LET chunked_docs == SplitDocuments(c, ProcessorSeparators, docs)
    IN [i \in DOMAIN chunked_docs |->
           [page_content |-> chunked_docs[i].page_content, page |-> chunked_docs[i].page,
            chunk_id |-> i - 1]]

ConstructProcessor ==
    /\ chunker.state = "none"
    /\ pipeline = "none"
    /\ chunker' = NewDocumentProcessor(ctor.chunk_size, ctor.chunk_overlap)
    /\ pipeline' = "processor"
    /\ UNCHANGED <<text, ctor, chunks, loadVars, storeVars, raceVars, queryVars, enrichVars,
                   citeVars, writeVars, depVars, embedVars, filterVars, optimized, chatVars>>

ChunkDocuments ==
    /\ chunker.state = "ready"
    /\ pipeline = "none"
    /\ chunks' = ChunkerChunkDocuments(chunker, LoadedDocuments)
    /\ chunker' = [chunker EXCEPT !.state = "used"]
    /\ pipeline' = "chunker"
    /\ UNCHANGED <<text, ctor, loadVars, storeVars, raceVars, queryVars, enrichVars,
                   citeVars, writeVars, depVars, embedVars, filterVars, optimized, chatVars>>

\* DocumentProcessor.process_file: load_document, then chunk_documents
ProcessFile ==
    /\ chunker.state = "ready"
    /\ pipeline = "processor"
    /\ chunks' = ProcessorChunkDocuments(chunker, LoadedDocuments)
    /\ chunker' = [chunker EXCEPT !.state = "used"]
    /\ UNCHANGED <<text, ctor, pipeline, loadVars, storeVars, raceVars, queryVars, enrichVars,
                   citeVars, writeVars, depVars, embedVars, filterVars, optimized, chatVars>>

NextPipeline ==
    \/ Construct
    \/ ConstructProcessor
    \/ ChunkDocuments
    \/ ProcessFile

SpecPipeline == InitChunk /\ [][NextPipeline]_vars

\* C25: every unit the chunking step of an ingestion pipeline produces is
\* stamped with chunk_id and chunk_size: the i-th chunk of the call, counting
\* from 0, has chunk_id i, and chunk_size is the length of its content.
C25_ChunksStamped ==
    (chunker.state = "used" /\ pipeline \in {"chunker", "processor"}) =>
        \A i \in DOMAIN chunks :
            /\ "chunk_id" \in DOMAIN chunks[i]
            /\ chunks[i].chunk_id = i - 1
            /\ "chunk_size" \in DOMAIN chunks[i]
            /\ chunks[i].chunk_size = Len(chunks[i].page_content)

(***************************************************************************)
(* SpecChat: one ChatbotAgent, built with or without a retriever, a search *)
(* tool and memory, serves chat and clear_memory calls.  `fault` is the    *)
(* LLM backend (or a tool run by the agent) raising during the call.       *)
(* chat_log is the history of the chat calls since the last clear_memory.  *)
(***************************************************************************)
MaxMessages == 2    \* distinct user messages
MaxChats == 2       \* chat calls between two clear_memory calls

Messages == 1..MaxMessages

\* what the LLM answers to a message: a text that is no user message
Response(message) == message + MaxMessages

\* self.tools of _setup_tools, and self.agent of _create_agent: None without tools
Tools(a) ==
    (IF a.rag_retriever THEN {"knowledge_base"} ELSE {})
        \cup (IF a.search_tool THEN {"web_search"} ELSE {})

HasAgent(a) == Tools(a) /= {}

\* active_tools of chat
ActiveTools(a, use_rag, use_search) ==
    (IF use_rag /\ a.rag_retriever THEN {"knowledge_base"} ELSE {})
        \cup (IF use_search /\ a.search_tool THEN {"web_search"} ELSE {})

\* which branch of chat answers: temp_agent.run or llm.predict
PathOf(a, use_rag, use_search) ==
    IF HasAgent(a) /\ (use_rag \/ use_search) /\ ActiveTools(a, use_rag, use_search) /= {}
    THEN "agent" ELSE "direct"

\* the agent executor's memory.save_context after a run
SaveContext(mem, message, response) ==
    mem \o <<[type |-> "human", content |-> message], [type |-> "ai", content |-> response]>>

\* the dictionary chat returns from the try block
ChatResult(a, message, use_rag, use_search) ==
    [response |-> Response(message), provider |-> "provider", model |-> "model",
     used_rag |-> use_rag /\ a.rag_retriever, used_search |-> use_search /\ a.search_tool]

\* the dictionary chat returns from the except block
ChatError == [response |-> 0, error |-> "error", provider |-> "provider", model |-> "model"]

\* ChatbotAgent.get_memory_messages
GetMemoryMessages(a, mem) ==
    IF ~a.enable_memory THEN <<>>
    ELSE [i \in DOMAIN mem |-> [role |-> mem[i].type, content |-> mem[i].content]]

InitChat ==
    /\ agent \in [rag_retriever : BOOLEAN, search_tool : BOOLEAN, enable_memory : BOOLEAN]
    /\ memory = <<>>
    /\ chat_ret = [outcome |-> "none"]
    /\ chat_log = <<>>
    /\ StoreInit /\ RaceIdle /\ QueryIdle /\ IngestIdle
    /\ EnrichIdle /\ CiteIdle /\ WriteIdle /\ DepsIdle
    /\ EmbedIdle /\ FilterIdle /\ OptimizeIdle /\ PipelineIdle

Chat ==
    /\ Len(chat_log) < MaxChats
    /\ \E message \in Messages, use_rag \in BOOLEAN, use_search \in BOOLEAN, fault \in BOOLEAN :
          LET path == PathOf(agent, use_rag, use_search) IN
          /\ chat_log' = Append(chat_log, [message |-> message, path |-> path, error |-> fault])
          /\ IF fault
             THEN /\ chat_ret' = [outcome |-> "returned", value |-> ChatError]
                  /\ UNCHANGED memory
             ELSE /\ chat_ret' = [outcome |-> "returned",
                                  value |-> ChatResult(agent, message, use_rag, use_search)]
                  /\ memory' = IF path = "agent" /\ agent.enable_memory
                               THEN SaveContext(memory, message, Response(message))
                               ELSE memory
    /\ UNCHANGED <<agent, storeVars, raceVars, queryVars, ingestVars, enrichVars, citeVars,
                   writeVars, depVars, embedVars, filterVars, optimized, pipeline>>

ClearMemory ==
    /\ memory' = <<>>
    /\ chat_log' = <<>>
    /\ UNCHANGED <<agent, chat_ret, storeVars, raceVars, queryVars, ingestVars, enrichVars,
                   citeVars, writeVars, depVars, embedVars, filterVars, optimized, pipeline>>

NextChat ==
    \/ Chat
    \/ ClearMemory

SpecChat == InitChat /\ [][NextChat]_vars

\* the fields ChatResponse requires
RequiredFields == {"response", "provider", "model", "used_rag", "used_search"}

\* C28: chat returns on every outcome, a caught error included, and the
\* dictionary it returns has every field ChatResponse requires.
C28_ChatResultComplete ==
    chat_ret.outcome /= "none" =>
        /\ chat_ret.outcome = "returned"
        /\ RequiredFields \subseteq DOMAIN chat_ret.value

\* the calls since the last clear_memory that returned without error
Answered == SelectSeq(chat_log, LAMBDA call : ~call.error)

\* C30: with memory enabled, get_memory_messages lists the user message and
\* the response of every chat call that returned without error since the last
\* clear_memory, in call order, whichever path answered; right after
\* clear_memory it lists nothing.
C30_MemoryListsEveryCall ==
    agent.enable_memory =>
        GetMemoryMessages(agent, memory) =
            Concat([i \in DOMAIN Answered |->
                <<[role |-> "human", content |-> Answered[i].message],
                  [role |-> "ai", content |-> Response(Answered[i].message)]>>])

====
